---- MODULE Spec2Model ----
(***************************************************************************)
(* A limit order book (crate `execution`, src/src/lib.rs): two HalfBooks   *)
(* (price_map + price_levels), the order_loc index and the cached best     *)
(* bid / best ask.  Operations: OrderBook::add, OrderBook::cancel,         *)
(* OrderBook::update_best_bid_ask, OrderBook::get_total_qty; the matching  *)
(* engine the source leaves as a TODO follows the specification.           *)
(*                                                                         *)
(* Slot indices are usize values as in the source (0-based); the TLA+      *)
(* sequence price_levels is 1-based, so slot idx is price_levels[idx + 1]. *)
(***************************************************************************)
EXTENDS Integers, Sequences, FiniteSets, TLC

\* ------------------------------------------------------------------ bounds
\* Prices are 0 .. MaxPrice (Price = u64 starts at 0).
MaxPrice == 1
\* Order identifiers the identifier source can yield: 1 .. MaxId.
MaxId == 2
\* The largest OrderQty; stands for u64::MAX, the arithmetic is modulo
\* QtyMax + 1 as the source's is modulo 2^64.
QtyMax == 3

Prices == 0 .. MaxPrice
OrderIds == 1 .. MaxId
Qtys == {0, 1, QtyMax}
Sides == {"Bid", "Ask"}

\* ------------------------------------------------------------------- state
VARIABLES
    bids,       \* HalfBook: [price_map, price_levels]
    asks,       \* HalfBook
    best_bid,   \* cached Price
    best_ask,   \* cached Price
    order_loc,  \* OrderId -> <<Side, slot index>>
    ret,        \* the last call and what it returned
    issued,     \* history: identifiers returned by add so far
    live,       \* history: orders added and not canceled since; seq grows
                \* with the order of the add calls at one side and price
    allocated,  \* history: <<side, price>> pairs some add was called with
    refreshed,  \* history: the pair the last update_best_bid_ask returned
    canceled    \* history: identifiers cancel was called with

book == <<bids, asks, best_bid, best_ask, order_loc>>
hist == <<issued, live, allocated, refreshed, canceled>>
vars == <<bids, asks, best_bid, best_ask, order_loc, ret, issued, live,
          allocated, refreshed, canceled>>

\* The OrderBook value (&self / &mut self) the methods below work on.
self == [bids |-> bids, asks |-> asks, best_bid |-> best_bid,
         best_ask |-> best_ask, order_loc |-> order_loc]

\* The OrderBook after a call.
Becomes(ob) ==
    /\ bids' = ob.bids
    /\ asks' = ob.asks
    /\ best_bid' = ob.best_bid
    /\ best_ask' = ob.best_ask
    /\ order_loc' = ob.order_loc

\* --------------------------------------------------------------- helpers
Min(S) == CHOOSE x \in S : \A y \in S : x <= y
Max(S) == CHOOSE x \in S : \A y \in S : x >= y

\* Mutant of Without: a lookup (HashMap::get) in place of HashMap::remove,
\* the entry stays.
Without_keeps(f, k) == f

\* HashMap::remove / BTreeMap without a key.
Without(f, k) == [x \in DOMAIN f \ {k} |-> f[x]]

\* HalfBook::new
HalfBook_new == [price_map |-> <<>>, price_levels |-> <<>>]

\* The level a price_map entry points at.
LevelAt(hb, idx) == hb.price_levels[idx + 1]

\* u64 addition: the exact sum when it fits, else an overflow.
Overflows(a, b) == a + b > QtyMax
WrappingAdd(a, b) == (a + b) % (QtyMax + 1)

\* Iterator::sum over the level's quantities, front to back: the wrapped sum
\* and whether any addition overflowed.
RECURSIVE SumFrom(_, _, _)
SumFrom(q, i, acc) ==
    IF i > Len(q) THEN acc
    ELSE SumFrom(q, i + 1,
                 [value |-> WrappingAdd(acc.value, q[i].qty),
                  overflow |-> acc.overflow \/ Overflows(acc.value, q[i].qty)])

\* Mutant of HalfBook_get_total_qty: the sum starts from the front order of
\* the level (level[0].qty), so an empty level panics like an absent key.
HalfBook_get_total_qty_from_front(hb, price) ==
    IF \/ price \notin DOMAIN hb.price_map
       \/ LevelAt(hb, hb.price_map[price]) = <<>>
    THEN {[result |-> "panic", total |-> 0]}
    ELSE LET q == LevelAt(hb, hb.price_map[price])
             s == SumFrom(q, 2, [value |-> q[1].qty, overflow |-> FALSE])
         IN  IF s.overflow
             THEN {[result |-> "panic", total |-> 0],
                   [result |-> "ok", total |-> s.value]}
             ELSE {[result |-> "ok", total |-> s.value]}

\* HalfBook::get_total_qty.  Indexing price_map with an absent key panics;
\* an overflowing sum panics when overflow checks are compiled in and wraps
\* when they are not.  The result is the set of outcomes a build can give.
HalfBook_get_total_qty(hb, price) ==
    IF price \notin DOMAIN hb.price_map
    THEN {[result |-> "panic", total |-> 0]}
    ELSE LET s == SumFrom(LevelAt(hb, hb.price_map[price]), 1,
                          [value |-> 0, overflow |-> FALSE])
         IN  IF s.overflow
             THEN {[result |-> "panic", total |-> 0],
                   [result |-> "ok", total |-> s.value]}
             ELSE {[result |-> "ok", total |-> s.value]}

\* OrderBook::get_total_qty
OrderBook_get_total_qty(ob, side, price) ==
    IF side = "Bid" THEN HalfBook_get_total_qty(ob.bids, price)
                    ELSE HalfBook_get_total_qty(ob.asks, price)

\* Mutant of HalfBook_insert: the slot index of a new level is read after the
\* push (price_levels.len() once the level is in) instead of before it.
HalfBook_insert_len_after(hb, price, id, qty) ==
    IF price \in DOMAIN hb.price_map
    THEN LET idx == hb.price_map[price] IN
         [idx |-> idx,
          hb  |-> [hb EXCEPT !.price_levels[idx + 1] =
                                 Append(@, [id |-> id, qty |-> qty])]]
    ELSE LET idx == Len(hb.price_levels) + 1 IN
         [idx |-> idx,
          hb  |-> [price_map    |-> (price :> idx) @@ hb.price_map,
                   price_levels |-> Append(hb.price_levels,
                                           <<[id |-> id, qty |-> qty]>>)]]

\* Mutant of HalfBook_insert: push_front in place of push_back.
HalfBook_insert_front(hb, price, id, qty) ==
    IF price \in DOMAIN hb.price_map
    THEN LET idx == hb.price_map[price] IN
         [idx |-> idx,
          hb  |-> [hb EXCEPT !.price_levels[idx + 1] =
                                 <<[id |-> id, qty |-> qty]>> \o @]]
    ELSE LET idx == Len(hb.price_levels) IN
         [idx |-> idx,
          hb  |-> [price_map    |-> (price :> idx) @@ hb.price_map,
                   price_levels |-> Append(hb.price_levels,
                                           <<[id |-> id, qty |-> qty]>>)]]

\* The insertion arm of add for one HalfBook: push_back on the mapped level,
\* or a new slot at index price_levels.len() and a new price_map entry.
HalfBook_insert(hb, price, id, qty) ==
    IF price \in DOMAIN hb.price_map
    THEN LET idx == hb.price_map[price] IN
         [idx |-> idx,
          hb  |-> [hb EXCEPT !.price_levels[idx + 1] =
                                 Append(@, [id |-> id, qty |-> qty])]]
    ELSE LET idx == Len(hb.price_levels) IN
         [idx |-> idx,
          hb  |-> [price_map    |-> (price :> idx) @@ hb.price_map,
                   price_levels |-> Append(hb.price_levels,
                                           <<[id |-> id, qty |-> qty]>>)]]

\* Mutant of HalfBook_retain: a level that retain leaves empty loses its
\* price_map entry.
HalfBook_retain_forgetting(hb, idx, id) ==
    LET kept == SelectSeq(hb.price_levels[idx + 1], LAMBDA o : o.id # id)
        keys == IF kept = <<>>
                THEN {p \in DOMAIN hb.price_map : hb.price_map[p] # idx}
                ELSE DOMAIN hb.price_map
    IN  [price_map    |-> [p \in keys |-> hb.price_map[p]],
         price_levels |-> [hb.price_levels EXCEPT ![idx + 1] = kept]]

\* VecDeque::retain(|o| o.id != id) on slot idx.
HalfBook_retain(hb, idx, id) ==
    [hb EXCEPT !.price_levels[idx + 1] = SelectSeq(@, LAMBDA o : o.id # id)]

\* Mutant of ScanAsks: the first key of price_map is taken whether or not its
\* level is empty.
ScanAsks_no_skip(hb, keys, cur) ==
    IF keys = {} THEN cur ELSE Min(keys)

\* The ask loop of update_best_bid_ask: price_map in ascending key order, the
\* first non-empty level sets best_ask; cur is kept when none is found.
RECURSIVE ScanAsks(_, _, _)
ScanAsks(hb, keys, cur) ==
    IF keys = {} THEN cur
    ELSE LET price == Min(keys) IN
         IF LevelAt(hb, hb.price_map[price]) # <<>> THEN price
         ELSE ScanAsks(hb, keys \ {price}, cur)

\* The bid loop: price_map in descending key order (.rev()).
RECURSIVE ScanBids(_, _, _)
ScanBids(hb, keys, cur) ==
    IF keys = {} THEN cur
    ELSE LET price == Max(keys) IN
         IF LevelAt(hb, hb.price_map[price]) # <<>> THEN price
         ELSE ScanBids(hb, keys \ {price}, cur)

\* OrderBook::new
OrderBook_new ==
    [bids |-> HalfBook_new, asks |-> HalfBook_new, best_bid |-> 0,
     best_ask |-> 0, order_loc |-> <<>>]

\* Mutant of OrderBook_add: add refreshes the cached best price of its side
\* eagerly.
OrderBook_add_eager(ob, side, price, qty, id) ==
    LET r == HalfBook_insert(IF side = "Ask" THEN ob.asks ELSE ob.bids,
                             price, id, qty)
        loc == (id :> <<side, r.idx>>) @@ ob.order_loc
    IN  IF side = "Ask"
        THEN [ob EXCEPT !.order_loc = loc, !.asks = r.hb, !.best_ask = price]
        ELSE [ob EXCEPT !.order_loc = loc, !.bids = r.hb, !.best_bid = price]

\* OrderBook::add with the identifier the identifier source yielded.
OrderBook_add(ob, side, price, qty, id) ==
    LET r == HalfBook_insert(IF side = "Ask" THEN ob.asks ELSE ob.bids,
                             price, id, qty)
        loc == (id :> <<side, r.idx>>) @@ ob.order_loc
    IN  IF side = "Ask"
        THEN [ob EXCEPT !.order_loc = loc, !.asks = r.hb]
        ELSE [ob EXCEPT !.order_loc = loc, !.bids = r.hb]

\* Mutant of OrderBook_cancel: cancel resets the cached best prices before it
\* looks the identifier up.
OrderBook_cancel_invalidating(ob, id) ==
    LET o == [ob EXCEPT !.best_bid = 0, !.best_ask = 0] IN
    IF id \notin DOMAIN o.order_loc
    THEN [ob |-> o, result |-> "NotFound"]
    ELSE LET side == o.order_loc[id][1]
             idx  == o.order_loc[id][2]
             rest == Without(o.order_loc, id)
         IN  [ob |-> IF side = "Bid"
                     THEN [o EXCEPT !.order_loc = rest,
                                    !.bids = HalfBook_retain(@, idx, id)]
                     ELSE [o EXCEPT !.order_loc = rest,
                                    !.asks = HalfBook_retain(@, idx, id)],
              result |-> "Canceled"]

\* OrderBook::cancel: the book afterwards and the CancelResult.
OrderBook_cancel(ob, id) ==
    IF id \notin DOMAIN ob.order_loc
    THEN [ob |-> [ob EXCEPT !.order_loc = Without(@, id)],
          result |-> "NotFound"]
    ELSE LET side == ob.order_loc[id][1]
             idx  == ob.order_loc[id][2]
             rest == Without(ob.order_loc, id)
         IN  [ob |-> IF side = "Bid"
                     THEN [ob EXCEPT !.order_loc = rest,
                                     !.bids = HalfBook_retain(@, idx, id)]
                     ELSE [ob EXCEPT !.order_loc = rest,
                                     !.asks = HalfBook_retain(@, idx, id)],
              result |-> "Canceled"]

\* A HalfBook without the price_map entries of its empty levels.
HalfBook_pruned(hb) ==
    [hb EXCEPT !.price_map =
        [p \in {k \in DOMAIN hb.price_map :
                   LevelAt(hb, hb.price_map[k]) # <<>>} |-> hb.price_map[p]]]

\* Mutant of OrderBook_update_best_bid_ask: the scan drops the price_map
\* entries of the empty levels it passes.
OrderBook_update_best_bid_ask_pruning(ob) ==
    [ob EXCEPT !.best_ask = ScanAsks(ob.asks, DOMAIN ob.asks.price_map, @),
               !.best_bid = ScanBids(ob.bids, DOMAIN ob.bids.price_map, @),
               !.asks = HalfBook_pruned(@),
               !.bids = HalfBook_pruned(@)]

\* OrderBook::update_best_bid_ask: the book afterwards; the pair returned is
\* (best_bid, best_ask) of that book.
OrderBook_update_best_bid_ask(ob) ==
    [ob EXCEPT !.best_ask = ScanAsks(ob.asks, DOMAIN ob.asks.price_map, @),
               !.best_bid = ScanBids(ob.bids, DOMAIN ob.bids.price_map, @)]

\* -------------------------------------------------------------------- Init
Init ==
    /\ bids = OrderBook_new.bids
    /\ asks = OrderBook_new.asks
    /\ best_bid = OrderBook_new.best_bid
    /\ best_ask = OrderBook_new.best_ask
    /\ order_loc = OrderBook_new.order_loc
    /\ ret = [op |-> "new", result |-> "ok"]
    /\ issued = {}
    /\ live = {}
    /\ allocated = {}
    /\ refreshed = <<OrderBook_new.best_bid, OrderBook_new.best_ask>>
    /\ canceled = {}

\* The arrival number of the next order at (side, price): above those of the
\* orders the history holds there.
NextSeq(side, price) ==
    LET here == {o.seq : o \in {x \in live : x.side = side /\ x.price = price}}
    IN  IF here = {} THEN 1 ELSE Max(here) + 1

\* A panic ends the program: no call follows it.
Running == ret.result # "panic"

\* ----------------------------------------------------------------- actions
\* A call of add; id is what rand::thread_rng().gen() yielded.
Add(side, price, qty, id) ==
    /\ Running
    /\ Becomes(OrderBook_add(self, side, price, qty, id))
    /\ ret' = [op |-> "add", result |-> "ok", side |-> side, price |-> price,
               qty |-> qty, id |-> id]
    /\ issued' = issued \cup {id}
    /\ live' = live \cup {[id |-> id, side |-> side, price |-> price,
                           qty |-> qty, seq |-> NextSeq(side, price)]}
    /\ allocated' = allocated \cup {<<side, price>>}
    /\ canceled' = canceled \ {id}
    /\ UNCHANGED refreshed

\* A call of cancel.
Cancel(id) ==
    /\ Running
    /\ LET r == OrderBook_cancel(self, id) IN
       /\ Becomes(r.ob)
       /\ ret' = [op |-> "cancel", result |-> r.result, id |-> id,
                  wasLive |-> \E o \in live : o.id = id,
                  again |-> id \in canceled]
    /\ live' = {o \in live : o.id # id}
    /\ canceled' = canceled \cup {id}
    /\ UNCHANGED <<issued, allocated, refreshed>>

\* A call of update_best_bid_ask.
Refresh ==
    /\ Running
    /\ LET ob == OrderBook_update_best_bid_ask(self) IN
       /\ Becomes(ob)
       /\ ret' = [op |-> "update_best_bid_ask", result |-> "ok",
                  bid |-> ob.best_bid, ask |-> ob.best_ask]
       /\ refreshed' = <<ob.best_bid, ob.best_ask>>
    /\ UNCHANGED <<issued, live, allocated, canceled>>

\* A call of get_total_qty (&self: the book is only read).
GetTotalQty(side, price) ==
    /\ Running
    /\ \E out \in OrderBook_get_total_qty(self, side, price) :
          ret' = [op |-> "get_total_qty", result |-> out.result,
                  side |-> side, price |-> price, total |-> out.total]
    /\ UNCHANGED <<book, hist>>

\* The identifier source yields an identifier it has not yielded before.
Next ==
    \/ \E side \in Sides, price \in Prices, qty \in Qtys,
          id \in OrderIds \ issued : Add(side, price, qty, id)
    \/ \E id \in OrderIds : Cancel(id)
    \/ Refresh
    \/ \E side \in Sides, price \in Prices : GetTotalQty(side, price)


\* ------------------------------------------------- MatchingEngine (spec 4.3)
\* lib.rs stops at "TODO: Implement the fill method" and declares only
\* OrderStatus and FillResult; submit below follows section 4.3 of the
\* specification.

\* The "no price" value: outside the range of Price.
NoPrice == 0 - 1

\* No identifier is left for a remainder to rest under.
NoId == 0

\* PriceLevelStore.bestNonEmptyPrice: forward over the ascending price map
\* for asks, reverse for bids, skipping empty slots; NoPrice when none.
bestNonEmptyPrice(hb, side) ==
    IF side = "Ask" THEN ScanAsks(hb, DOMAIN hb.price_map, NoPrice)
                    ELSE ScanBids(hb, DOMAIN hb.price_map, NoPrice)

Opposite(side) == IF side = "Bid" THEN "Ask" ELSE "Bid"

\* An incoming bid crosses an ask priced at or below it, an incoming ask a
\* bid priced at or above it.
Crosses(side, price, resting) ==
    IF side = "Bid" THEN resting <= price ELSE resting >= price

\* One side's HalfBook replaced.
WithHalf(ob, side, hb) ==
    IF side = "Bid" THEN [ob EXCEPT !.bids = hb] ELSE [ob EXCEPT !.asks = hb]

\* Mutant of MatchWalk: the order at the back of the level trades first.
RECURSIVE MatchWalk_lifo(_, _, _, _, _)
MatchWalk_lifo(ob, side, price, remaining, fills) ==
    LET hb   == IF side = "Bid" THEN ob.asks ELSE ob.bids
        best == bestNonEmptyPrice(hb, Opposite(side))
    IN  IF remaining = 0 \/ best = NoPrice \/ ~Crosses(side, price, best)
        THEN [ob |-> ob, remaining |-> remaining, fills |-> fills]
        ELSE LET idx    == hb.price_map[best]
                 n      == Len(LevelAt(hb, idx))
                 o      == LevelAt(hb, idx)[n]
                 traded == IF remaining < o.qty THEN remaining ELSE o.qty
             IN  IF traded = o.qty
                 THEN MatchWalk_lifo(
                          [WithHalf(ob, Opposite(side),
                               [hb EXCEPT !.price_levels[idx + 1] =
                                              SubSeq(@, 1, n - 1)])
                             EXCEPT !.order_loc = Without(@, o.id)],
                          side, price, remaining - traded,
                          Append(fills, <<best, traded>>))
                 ELSE [ob |-> WithHalf(ob, Opposite(side),
                                  [hb EXCEPT !.price_levels[idx + 1][n].qty =
                                                 o.qty - traded]),
                       remaining |-> remaining - traded,
                       fills |-> Append(fills, <<best, traded>>)]

\* Mutant of MatchWalk: the incoming order's remaining quantity is not
\* decremented when a resting order is consumed whole.
RECURSIVE MatchWalk_no_decrement(_, _, _, _, _)
MatchWalk_no_decrement(ob, side, price, remaining, fills) ==
    LET hb   == IF side = "Bid" THEN ob.asks ELSE ob.bids
        best == bestNonEmptyPrice(hb, Opposite(side))
    IN  IF remaining = 0 \/ best = NoPrice \/ ~Crosses(side, price, best)
        THEN [ob |-> ob, remaining |-> remaining, fills |-> fills]
        ELSE LET idx    == hb.price_map[best]
                 o      == Head(LevelAt(hb, idx))
                 traded == IF remaining < o.qty THEN remaining ELSE o.qty
             IN  IF traded = o.qty
                 THEN MatchWalk_no_decrement(
                          [WithHalf(ob, Opposite(side),
                               [hb EXCEPT !.price_levels[idx + 1] = Tail(@)])
                             EXCEPT !.order_loc = Without(@, o.id)],
                          side, price, remaining,
                          Append(fills, <<best, traded>>))
                 ELSE [ob |-> WithHalf(ob, Opposite(side),
                                  [hb EXCEPT !.price_levels[idx + 1][1].qty =
                                                 o.qty - traded]),
                       remaining |-> remaining - traded,
                       fills |-> Append(fills, <<best, traded>>)]

\* Step 3 of submit: while remaining > 0 and the opposite side's best
\* non-empty level crosses, trade min(remaining, quantity) with the order at
\* the front of that level at the level's price; a resting order consumed
\* whole leaves its level and the location index, one consumed in part stays
\* at the front with the rest of its quantity.
RECURSIVE MatchWalk(_, _, _, _, _)
MatchWalk(ob, side, price, remaining, fills) ==
    LET hb   == IF side = "Bid" THEN ob.asks ELSE ob.bids
        best == bestNonEmptyPrice(hb, Opposite(side))
    IN  IF remaining = 0 \/ best = NoPrice \/ ~Crosses(side, price, best)
        THEN [ob |-> ob, remaining |-> remaining, fills |-> fills]
        ELSE LET idx    == hb.price_map[best]
                 o      == Head(LevelAt(hb, idx))
                 traded == IF remaining < o.qty THEN remaining ELSE o.qty
             IN  IF traded = o.qty
                 THEN MatchWalk(
                          [WithHalf(ob, Opposite(side),
                               [hb EXCEPT !.price_levels[idx + 1] = Tail(@)])
                             EXCEPT !.order_loc = Without(@, o.id)],
                          side, price, remaining - traded,
                          Append(fills, <<best, traded>>))
                 ELSE [ob |-> WithHalf(ob, Opposite(side),
                                  [hb EXCEPT !.price_levels[idx + 1][1].qty =
                                                 o.qty - traded]),
                       remaining |-> remaining - traded,
                       fills |-> Append(fills, <<best, traded>>)]

\* Step 5 of submit.
StatusOf(remaining, fills) ==
    IF fills = <<>> THEN "Created"
    ELSE IF remaining = 0 THEN "Filled" ELSE "PartiallyFilled"

\* Mutant of MatchingEngine_submit: the quantity is not checked, a submit of
\* quantity 0 goes through the matching walk.
MatchingEngine_submit_unchecked(ob, side, price, quantity, id) ==
    IF price = NoPrice
    THEN [ob |-> ob, result |-> "InvalidPrice"]
    ELSE LET m == MatchWalk(ob, side, price, quantity, <<>>)
             after == IF id # NoId
                      THEN OrderBook_update_best_bid_ask(
                               OrderBook_add(m.ob, side, price, m.remaining,
                                             id))
                      ELSE m.ob
         IN  [ob |-> after, result |-> "ok",
              status |-> StatusOf(m.remaining, m.fills),
              remaining |-> m.remaining, orders |-> m.fills]

\* MatchingEngine.submit: the book afterwards and what the caller gets, a
\* FillResult (result "ok") or a rejection.  id is the identifier the
\* remainder rests under, when there is one.
MatchingEngine_submit(ob, side, price, quantity, id) ==
    IF quantity = 0
    THEN [ob |-> ob, result |-> "InvalidQuantity"]
    ELSE IF price = NoPrice
    THEN [ob |-> ob, result |-> "InvalidPrice"]
    ELSE LET m == MatchWalk(ob, side, price, quantity, <<>>)
             after == IF m.remaining > 0
                      THEN OrderBook_update_best_bid_ask(
                               OrderBook_add(m.ob, side, price, m.remaining,
                                             id))
                      ELSE m.ob
         IN  [ob |-> after, result |-> "ok",
              status |-> StatusOf(m.remaining, m.fills),
              remaining |-> m.remaining, orders |-> m.fills]

\* The orders resting in a HalfBook, as the history records them.
RestingOf(hb, side) ==
    {[id |-> LevelAt(hb, hb.price_map[p])[i].id, side |-> side, price |-> p,
      qty |-> LevelAt(hb, hb.price_map[p])[i].qty] :
        <<p, i>> \in {<<p, i>> \in (DOMAIN hb.price_map) \X (1 .. MaxId) :
                         i <= Len(LevelAt(hb, hb.price_map[p]))}}

\* The arrival number of a resting identifier: the one the history holds, or
\* the next one at its side and price for the remainder now resting.
SeqOf(id, side, price) ==
    IF \E o \in live : o.id = id
    THEN (CHOOSE o \in live : o.id = id).seq
    ELSE NextSeq(side, price)

\* The identifiers a submit may draw: one the identifier source has not
\* yielded before when a remainder is to rest, none otherwise.
SubmitIds(side, price, quantity) ==
    IF /\ quantity > 0
       /\ price # NoPrice
       /\ MatchWalk(self, side, price, quantity, <<>>).remaining > 0
    THEN OrderIds \ issued
    ELSE {NoId}

\* A call of submit.
Submit(side, price, quantity) ==
    /\ Running
    /\ \E id \in SubmitIds(side, price, quantity) :
       LET r == MatchingEngine_submit(self, side, price, quantity, id) IN
       /\ Becomes(r.ob)
       /\ ret' = IF r.result = "ok"
                 THEN [op |-> "submit", result |-> "ok", side |-> side,
                       price |-> price, quantity |-> quantity,
                       status |-> r.status, remaining |-> r.remaining,
                       orders |-> r.orders]
                 ELSE [op |-> "submit", result |-> r.result, side |-> side,
                       price |-> price, quantity |-> quantity]
       /\ issued' = IF id = NoId THEN issued ELSE issued \cup {id}
       /\ live' = {[id |-> o.id, side |-> o.side, price |-> o.price,
                     qty |-> o.qty, seq |-> SeqOf(o.id, o.side, o.price)] :
                       o \in RestingOf(r.ob.bids, "Bid")
                              \cup RestingOf(r.ob.asks, "Ask")}
       /\ allocated' = IF id = NoId THEN allocated
                       ELSE allocated \cup {<<side, price>>}
       /\ refreshed' = <<r.ob.best_bid, r.ob.best_ask>>
    /\ UNCHANGED canceled

Spec == Init /\ [][Next]_vars

\* The book with the matching engine in front of it: add, cancel and refresh
\* as before, and submit.
NextSubmit ==
    \/ \E side \in Sides, price \in Prices, qty \in Qtys,
          id \in OrderIds \ issued : Add(side, price, qty, id)
    \/ \E id \in OrderIds : Cancel(id)
    \/ Refresh
    \/ \E side \in Sides, price \in Prices \cup {NoPrice}, quantity \in Qtys :
          Submit(side, price, quantity)

SpecSubmit == Init /\ [][NextSubmit]_vars

\* ------------------------------------------------------- what the claims use
\* The prices at which an order added on `side` has not been canceled.
RestingPrices(side) == {o.price : o \in {x \in live : x.side = side}}

\* The exact (unbounded) sum of the quantities of the orders in a set.
RECURSIVE SumOfQty(_)
SumOfQty(S) ==
    IF S = {} THEN 0
    ELSE LET o == CHOOSE x \in S : TRUE IN o.qty + SumOfQty(S \ {o})

\* The orders added at (side, price) and not canceled since.
LiveAt(side, price) == {o \in live : o.side = side /\ o.price = price}

HalfBookOf(side) == IF side = "Bid" THEN bids ELSE asks

\* Where an identifier sits in the level queues: <<side, slot, position>>.
Places(id) ==
    {<<side, idx, i>> \in Sides \X (0 .. MaxId) \X (1 .. MaxId) :
        /\ idx < Len(HalfBookOf(side).price_levels)
        /\ i <= Len(LevelAt(HalfBookOf(side), idx))
        /\ LevelAt(HalfBookOf(side), idx)[i].id = id}

\* C1: right after update_best_bid_ask, on a side with a resting order the
\* returned (and cached) best bid is the highest price with a resting bid and
\* the best ask the lowest price with a resting ask; emptied levels are
\* skipped.
C1_BestIsExtremeResting ==
    ret.op = "update_best_bid_ask" =>
        /\ RestingPrices("Bid") # {} =>
              ret.bid = Max(RestingPrices("Bid")) /\ best_bid = ret.bid
        /\ RestingPrices("Ask") # {} =>
              ret.ask = Min(RestingPrices("Ask")) /\ best_ask = ret.ask

\* C1 witness: a refresh that skipped an emptied ask level priced below the
\* best ask it returned.
C1_Witness ==
    /\ ret.op = "update_best_bid_ask"
    /\ RestingPrices("Ask") # {}
    /\ \E p \in Prices : <<"Ask", p>> \in allocated /\ p < ret.ask
                         /\ p \notin RestingPrices("Ask")

\* C2: cancel(id) returns Canceled exactly when an order with that identifier
\* rests in the book, and a cancel(id) that follows an earlier cancel(id)
\* (no add having returned id in between) returns NotFound.
C2_CancelIffResting ==
    ret.op = "cancel" =>
        /\ (ret.result = "Canceled") <=> ret.wasLive
        /\ ret.again => ret.result = "NotFound"

\* C2 witness: a second cancel of an identifier that add had returned.
C2_Witness ==
    /\ ret.op = "cancel"
    /\ ret.again
    /\ ret.id \in issued
    /\ ret.result = "NotFound"

\* C3: get_total_qty(side, price) at an allocated price returns the sum of
\* the quantities of the orders added there and not canceled since.
C3_TotalIsSumOfLive ==
    (ret.op = "get_total_qty" /\ <<ret.side, ret.price>> \in allocated) =>
        /\ ret.result = "ok"
        /\ ret.total = SumOfQty(LiveAt(ret.side, ret.price))

\* C4: order_loc holds exactly the identifiers of the resting orders; each
\* sits at one place in the level queues, in the slot its entry names.
C4_IndexMatchesLevels ==
    /\ DOMAIN order_loc = {o.id : o \in live}
    /\ \A id \in OrderIds :
          IF id \in DOMAIN order_loc
          THEN /\ Cardinality(Places(id)) = 1
               /\ \E pl \in Places(id) :
                     order_loc[id] = <<pl[1], pl[2]>>
               /\ order_loc[id][2] <
                     Len(HalfBookOf(order_loc[id][1]).price_levels)
          ELSE Places(id) = {}

\* C4 witness: one order rests in a slot other than slot 0 while another
\* has been canceled.
C4_Witness ==
    /\ \E id \in DOMAIN order_loc : order_loc[id][2] > 0
    /\ \E id \in issued : id \notin DOMAIN order_loc

\* The "no bid" / "no ask" values: what OrderBook::new caches and a refresh
\* of the new book returns.
NoBid == OrderBook_update_best_bid_ask(OrderBook_new).best_bid
NoAsk == OrderBook_update_best_bid_ask(OrderBook_new).best_ask

\* C5: right after update_best_bid_ask, a side with no resting order has
\* the "no bid" / "no ask" value returned and cached.
C5_EmptySideIsSentinel ==
    ret.op = "update_best_bid_ask" =>
        /\ RestingPrices("Bid") = {} => ret.bid = NoBid /\ best_bid = NoBid
        /\ RestingPrices("Ask") = {} => ret.ask = NoAsk /\ best_ask = NoAsk

\* C6: what update_best_bid_ask returns for a side holding a resting order
\* differs from what it returns for that side of an empty book.
C6_SentinelIsNoPrice ==
    ret.op = "update_best_bid_ask" =>
        /\ RestingPrices("Bid") # {} => ret.bid # NoBid
        /\ RestingPrices("Ask") # {} => ret.ask # NoAsk

\* C7: get_total_qty at a price no order was ever added at on that side
\* returns the error PriceNotFound and never panics.
C7_UnknownPriceIsTypedError ==
    (ret.op = "get_total_qty" /\ <<ret.side, ret.price>> \notin allocated) =>
        ret.result = "PriceNotFound"

\* C8: a cancel that returns NotFound leaves both sides, the location index
\* and the cached best prices as they were.
C8_NotFoundChangesNothing ==
    [][(ret'.op = "cancel" /\ ret'.result = "NotFound") => UNCHANGED book]_vars

\* C8 witness: NotFound returned by a book that holds an order and non-zero
\* cached prices.
C8_Witness ==
    /\ ret.op = "cancel"
    /\ ret.result = "NotFound"
    /\ order_loc # <<>>
    /\ best_bid # 0

\* C9: add and cancel leave best_bid and best_ask alone; the caches hold
\* what the last update_best_bid_ask returned (or the initial values).
C9_CachesOnlyMoveOnRefresh ==
    /\ [](<<best_bid, best_ask>> = refreshed)
    /\ [][ret'.op \in {"add", "cancel"} => UNCHANGED <<best_bid, best_ask>>]_vars

\* C9 witness: after an add the cached best bid is not the highest resting
\* bid price.
C9_Witness ==
    /\ ret.op = "add"
    /\ RestingPrices("Bid") # {}
    /\ best_bid # Max(RestingPrices("Bid"))

\* The sum of the quantities of a sequence of (price, quantity) fills.
RECURSIVE SumFills(_)
SumFills(fills) ==
    IF fills = <<>> THEN 0 ELSE Head(fills)[2] + SumFills(Tail(fills))

\* C10: a submit with quantity > 0 (and a price) returns a FillResult whose
\* remaining quantity plus the quantities of its fills is the quantity
\* submitted.
C10_MatchingConservation ==
    (ret.op = "submit" /\ ret.quantity > 0 /\ ret.price # NoPrice) =>
        /\ ret.result = "ok"
        /\ ret.remaining + SumFills(ret.orders) = ret.quantity

\* C10 witness: a submit that traded with a resting order and left a
\* remainder.
C10_Witness ==
    /\ ret.op = "submit"
    /\ ret.result = "ok"
    /\ ret.orders # <<>>
    /\ SumFills(ret.orders) > 0
    /\ ret.remaining > 0

\* The exact sum of the quantities in a level queue.
RECURSIVE SumLevel(_)
SumLevel(q) == IF q = <<>> THEN 0 ELSE Head(q).qty + SumLevel(Tail(q))

\* The sum of the quantities of the fills made at one price.
RECURSIVE SumFillsAt(_, _)
SumFillsAt(fills, p) ==
    IF fills = <<>> THEN 0
    ELSE (IF Head(fills)[1] = p THEN Head(fills)[2] ELSE 0)
         + SumFillsAt(Tail(fills), p)

\* post is pre with orders taken from its front only: some leading orders are
\* gone, the order now first may have lost quantity, every order behind it is
\* as it was.
FrontConsumed(pre, post) ==
    \E k \in 0 .. Len(pre) :
        /\ Len(post) = Len(pre) - k
        /\ \A i \in 1 .. Len(post) :
              /\ post[i].id = pre[i + k].id
              /\ post[i].qty <= pre[i + k].qty
              /\ i > 1 => post[i].qty = pre[i + k].qty

\* C11: a submit consumes each level of the opposite side from the front (an
\* order behind another one is untouched while that one has quantity left),
\* and the fills made at a price account exactly for the quantity that left
\* the resting level of that price.
C11_PriceTimePriority ==
    [][(ret'.op = "submit" /\ ret'.result = "ok") =>
          LET pre  == IF ret'.side = "Bid" THEN asks ELSE bids
              post == IF ret'.side = "Bid" THEN asks' ELSE bids'
          IN  /\ post.price_map = pre.price_map
              /\ \A i \in 1 .. Len(ret'.orders) :
                    ret'.orders[i][1] \in DOMAIN pre.price_map
              /\ \A p \in DOMAIN pre.price_map :
                    /\ FrontConsumed(LevelAt(pre, pre.price_map[p]),
                                     LevelAt(post, post.price_map[p]))
                    /\ SumFillsAt(ret'.orders, p) =
                          SumLevel(LevelAt(pre, pre.price_map[p]))
                          - SumLevel(LevelAt(post, post.price_map[p]))]_vars

\* C11 witness: a submit filled by one trade at a price where the order that
\* arrived second still rests whole, so the trade consumed the order ahead
\* of it.
C11_Witness ==
    /\ ret.op = "submit"
    /\ ret.result = "ok"
    /\ ret.status = "Filled"
    /\ Len(ret.orders) = 1
    /\ ret.orders[1][2] > 0
    /\ canceled = {}
    /\ \E o \in live :
          /\ o.side = Opposite(ret.side)
          /\ o.price = ret.orders[1][1]
          /\ o.seq = 2
          /\ o.qty = QtyMax
          /\ LevelAt(HalfBookOf(o.side),
                     HalfBookOf(o.side).price_map[o.price]) =
                <<[id |-> o.id, qty |-> o.qty]>>

\* C12: a submit with quantity 0 is rejected with InvalidQuantity and leaves
\* the level queues, the price maps, the location index and the cached best
\* prices as they were.
C12_ZeroQuantityRejected ==
    [][(ret'.op = "submit" /\ ret'.quantity = 0) =>
          ret'.result = "InvalidQuantity" /\ UNCHANGED book]_vars

\* C12 witness: InvalidQuantity returned by a book that holds a resting order.
C12_Witness ==
    /\ ret.op = "submit"
    /\ ret.quantity = 0
    /\ ret.result = "InvalidQuantity"
    /\ order_loc # <<>>

\* ------------------------------------------------- FillResult (lib.rs 215-237)
\* The longest fills sequence a FillResult is drawn with.
MaxFills == 3

\* FillResult::new
FillResult_new ==
    [orders |-> <<>>, remaining |-> QtyMax, status |-> "Unititialized"]

\* The sequences over S of length n, and of length at most n.
RECURSIVE SeqsOfLen(_, _)
SeqsOfLen(S, n) ==
    IF n = 0 THEN {<<>>}
    ELSE {Append(q, x) : q \in SeqsOfLen(S, n - 1), x \in S}

RECURSIVE SeqsUpTo(_, _)
SeqsUpTo(S, n) ==
    IF n = 0 THEN {<<>>} ELSE SeqsOfLen(S, n) \cup SeqsUpTo(S, n - 1)

\* The FillResults avg_price is called on: FillResult::new with (price, qty)
\* pairs pushed on orders.
FillResults ==
    {[FillResult_new EXCEPT !.orders = q] :
        q \in SeqsUpTo(Prices \X Qtys, MaxFills)}

\* u64 multiplication.
MulOverflows(a, b) == a * b > QtyMax
WrappingMul(a, b) == (a * b) % (QtyMax + 1)

\* The fold of avg_price, front to back:
\* (total + price * qty, quantity + qty) in u64, and whether any of the
\* operations overflowed.
RECURSIVE FoldFills(_, _, _)
FoldFills(orders, i, acc) ==
    IF i > Len(orders) THEN acc
    ELSE LET price == orders[i][1]
             qty   == orders[i][2]
             prod  == WrappingMul(price, qty)
         IN  FoldFills(orders, i + 1,
                 [total    |-> WrappingAdd(acc.total, prod),
                  quantity |-> WrappingAdd(acc.quantity, qty),
                  overflow |-> \/ acc.overflow
                               \/ MulOverflows(price, qty)
                               \/ Overflows(acc.total, prod)
                               \/ Overflows(acc.quantity, qty)])

\* total as f64 / quantity as f64: 0.0 / 0.0 is NaN, x / 0.0 is infinite for
\* x > 0, otherwise the quotient num / den.
F64Div(total, quantity) ==
    IF quantity = 0
    THEN [kind |-> IF total = 0 THEN "NaN" ELSE "inf", num |-> 0, den |-> 0]
    ELSE [kind |-> "finite", num |-> total, den |-> quantity]

\* FillResult::avg_price: the outcomes a build can give (an overflowing u64
\* operation panics with overflow checks and wraps without them).
FillResult_avg_price(fr) ==
    LET f == FoldFills(fr.orders, 1,
                       [total |-> 0, quantity |-> 0, overflow |-> FALSE])
        ok == [result |-> "ok", value |-> F64Div(f.total, f.quantity)]
    IN  IF f.overflow
        THEN {[result |-> "panic", value |-> F64Div(0, 0)], ok}
        ELSE {ok}

\* A FillResult has been built; the book is a new one.
InitAvg ==
    /\ Init!1 /\ Init!2 /\ Init!3 /\ Init!4 /\ Init!5
    /\ \E fr \in FillResults :
          ret = [op |-> "FillResult", result |-> "ok", fill_result |-> fr]
    /\ issued = {}
    /\ live = {}
    /\ allocated = {}
    /\ refreshed = <<OrderBook_new.best_bid, OrderBook_new.best_ask>>
    /\ canceled = {}

\* A call of avg_price (&self: the FillResult is only read).
AvgPrice ==
    /\ Running
    /\ \E out \in FillResult_avg_price(ret.fill_result) :
          ret' = [op |-> "avg_price", result |-> out.result,
                  fill_result |-> ret.fill_result, value |-> out.value]
    /\ UNCHANGED <<book, hist>>

NextAvg == AvgPrice

SpecAvg == InitAvg /\ [][NextAvg]_vars

\* C13: avg_price of a FillResult whose fills sequence is empty signals
\* UndefinedAverage; it returns no number (NaN or zero) got by dividing by a
\* zero total quantity.
C13_EmptyFillsSignalUndefined ==
    (ret.op = "avg_price" /\ ret.fill_result.orders = <<>>) =>
        ret.result = "UndefinedAverage"

\* The prices some add was called with on a side.
AllocatedPrices(side) == {a[2] : a \in {x \in allocated : x[1] = side}}

\* Every key of price_map maps to a slot below price_levels.len(), distinct
\* prices map to distinct slots, and there are as many slots as prices ever
\* added on the side.
SlotsWellFormed(side) ==
    LET hb == HalfBookOf(side) IN
    /\ \A p \in DOMAIN hb.price_map :
          hb.price_map[p] \in 0 .. Len(hb.price_levels) - 1
    /\ \A p, q \in DOMAIN hb.price_map :
          p # q => hb.price_map[p] # hb.price_map[q]
    /\ Len(hb.price_levels) = Cardinality(AllocatedPrices(side))

\* A step keeps every price's slot: no entry of pre is gone or points
\* elsewhere in post, and no slot is gone.
SlotsKept(pre, post) ==
    /\ \A p \in DOMAIN pre.price_map :
          /\ p \in DOMAIN post.price_map
          /\ post.price_map[p] = pre.price_map[p]
    /\ Len(post.price_levels) >= Len(pre.price_levels)

\* C14: the price-level slots of each side are append-only: price_map is an
\* injection into the slot indices, there is one slot per price ever added on
\* the side, and no step (cancel and add included) removes a price's mapping
\* or points it at another slot.
C14_SlotsAppendOnly ==
    /\ [](\A side \in Sides : SlotsWellFormed(side))
    /\ [][SlotsKept(bids, bids') /\ SlotsKept(asks, asks')]_vars

\* C14 witness: an add at the one price ever used, after the order that
\* rested there was canceled: the new order is alone in slot 0, the only
\* slot.
C14_Witness ==
    /\ ret.op = "add"
    /\ ret.result = "ok"
    /\ Cardinality(issued) = 2
    /\ canceled \cap issued # {}
    /\ allocated = {<<ret.side, ret.price>>}
    /\ HalfBookOf(ret.side).price_map[ret.price] = 0
    /\ HalfBookOf(ret.side).price_levels =
          << <<[id |-> ret.id, qty |-> ret.qty]>> >>

\* C15: no price level on either side holds an order whose quantity is zero,
\* whatever quantities add was called with.
C15_NoZeroQuantityRests ==
    \A side \in Sides :
        \A i \in 1 .. Len(HalfBookOf(side).price_levels) :
            \A k \in 1 .. Len(HalfBookOf(side).price_levels[i]) :
                HalfBookOf(side).price_levels[i][k].qty # 0

\* The level queue at (side, price) of a HalfBook; empty when the price has
\* no slot.
QueueAt(hb, price) ==
    IF price \in DOMAIN hb.price_map THEN LevelAt(hb, hb.price_map[price])
    ELSE <<>>

\* The order of the history with an identifier.
LiveOrder(id) == CHOOSE o \in live : o.id = id

\* The orders of the level at (side, price) are the orders the history holds
\* there, earlier arrivals nearer the front.
InArrivalOrder(side, price) ==
    LET q == QueueAt(HalfBookOf(side), price) IN
    /\ {q[i].id : i \in 1 .. Len(q)} = {o.id : o \in LiveAt(side, price)}
    /\ Len(q) = Cardinality(LiveAt(side, price))
    /\ \A i, j \in 1 .. Len(q) :
          i < j => LiveOrder(q[i].id).seq < LiveOrder(q[j].id).seq

\* post is pre with the one order of identifier id taken out and the others
\* in the order they had.
OneRemoved(pre, post, id) ==
    \E k \in 1 .. Len(pre) :
        /\ pre[k].id = id
        /\ post = SubSeq(pre, 1, k - 1) \o SubSeq(pre, k + 1, Len(pre))

\* add puts the new order at the back of its level.
AddAppends ==
    ret'.op = "add" =>
        QueueAt(IF ret'.side = "Bid" THEN bids' ELSE asks', ret'.price) =
            Append(QueueAt(HalfBookOf(ret'.side), ret'.price),
                   [id |-> ret'.id, qty |-> ret'.qty])

\* A successful cancel takes the target out of one level and keeps the order
\* of the others; every other level is as it was.
CancelKeepsOrder ==
    (ret'.op = "cancel" /\ ret'.result = "Canceled") =>
        \E side \in Sides, price \in Prices :
            /\ OneRemoved(QueueAt(HalfBookOf(side), price),
                          QueueAt(IF side = "Bid" THEN bids' ELSE asks', price),
                          ret'.id)
            /\ \A s \in Sides, p \in Prices :
                  <<s, p>> # <<side, price>> =>
                      QueueAt(IF s = "Bid" THEN bids' ELSE asks', p) =
                          QueueAt(HalfBookOf(s), p)

C17_EmptiedLevelTotalsZero ==
    (/\ ret.op = "get_total_qty"
     /\ <<ret.side, ret.price>> \in allocated
     /\ LiveAt(ret.side, ret.price) = {}) =>
        (ret.result = "ok" /\ ret.total = 0)

\* C17 witness: a query answered zero at a price whose slot exists and whose
\* level a cancel emptied.
C17_Witness ==
    /\ ret.op = "get_total_qty"
    /\ ret.result = "ok"
    /\ ret.total = 0
    /\ <<ret.side, ret.price>> \in allocated
    /\ allocated = {<<ret.side, ret.price>>}
    /\ issued # {}
    /\ issued \subseteq canceled
    /\ QueueAt(HalfBookOf(ret.side), ret.price) = <<>>
    /\ ret.price \in DOMAIN HalfBookOf(ret.side).price_map

\* The HalfBook of a side after the step.
NextHalfBookOf(side) == IF side = "Bid" THEN bids' ELSE asks'

\* What get_total_qty answers at (side, price) of a HalfBook, a price with no
\* slot counting as a total of zero.
TotalsAt(hb, price) ==
    IF price \in DOMAIN hb.price_map THEN HalfBook_get_total_qty(hb, price)
    ELSE {[result |-> "ok", total |-> 0]}

\* add changes only the level at (side, price) and the location index: the
\* new order is at the back of its level with its quantity and is indexed
\* under (side, slot of price); the other side, the other levels and the
\* other entries of order_loc are as they were.
AddFrame ==
    ret'.op = "add" =>
        LET side == ret'.side
            pre  == HalfBookOf(side)
            post == NextHalfBookOf(side)
        IN  /\ QueueAt(post, ret'.price) =
                  Append(QueueAt(pre, ret'.price),
                         [id |-> ret'.id, qty |-> ret'.qty])
            /\ ret'.id \in DOMAIN order_loc'
            /\ order_loc'[ret'.id] = <<side, post.price_map[ret'.price]>>
            /\ DOMAIN order_loc' = DOMAIN order_loc \cup {ret'.id}
            /\ \A j \in DOMAIN order_loc \ {ret'.id} :
                  order_loc'[j] = order_loc[j]
            /\ NextHalfBookOf(Opposite(side)) = HalfBookOf(Opposite(side))
            /\ \A p \in Prices \ {ret'.price} :
                  QueueAt(post, p) = QueueAt(pre, p)
            /\ SlotsKept(pre, post)

\* After add the total at (side, price) is the total before plus qty.
AddGrowsTotal ==
    ret'.op = "add" =>
        \A b \in TotalsAt(HalfBookOf(ret'.side), ret'.price),
           a \in TotalsAt(NextHalfBookOf(ret'.side), ret'.price) :
            b.result = "ok" =>
                (a.result = "ok" /\ a.total = b.total + ret'.qty)

\* The frame of add alone: it holds of every add.
AddFrameHolds == [][AddFrame]_vars

\* C18: add changes only the level at (side, price) and the location index:
\* the returned identifier rests at the back of that level with quantity qty
\* and is indexed under (side, slot of price), get_total_qty at (side, price)
\* has grown by exactly qty, and every other level and every other entry of
\* the location index is unchanged.
C18_AddChangesOnlyItsLevel ==
    [][AddFrame /\ AddGrowsTotal]_vars

\* The quantity the book holds for a resting identifier: that of the order
\* with the identifier in the level order_loc points at.
RestingQty(ob, id) ==
    LET loc == ob.order_loc[id]
        q   == LevelAt(IF loc[1] = "Bid" THEN ob.bids ELSE ob.asks, loc[2])
    IN  (CHOOSE o \in {q[i] : i \in 1 .. Len(q)} : o.id = id).qty

\* A successful cancel takes exactly the order of the identifier out of the
\* level at the side and price it was added with; the orders left there keep
\* quantity and order, the other levels and the other side are as they were.
CancelFrame ==
    (ret'.op = "cancel" /\ ret'.result = "Canceled") =>
        /\ \E o \in live : o.id = ret'.id
        /\ LET o    == LiveOrder(ret'.id)
               pre  == HalfBookOf(o.side)
               post == NextHalfBookOf(o.side)
           IN  /\ OneRemoved(QueueAt(pre, o.price), QueueAt(post, o.price),
                             ret'.id)
               /\ Len(QueueAt(post, o.price)) = Len(QueueAt(pre, o.price)) - 1
               /\ \A p \in Prices \ {o.price} :
                     QueueAt(post, p) = QueueAt(pre, p)
               /\ SlotsKept(pre, post)
               /\ NextHalfBookOf(Opposite(o.side)) = HalfBookOf(Opposite(o.side))

\* After a successful cancel the total at the order's side and price is the
\* total before less the order's quantity.
CancelDropsTotal ==
    (ret'.op = "cancel" /\ ret'.result = "Canceled") =>
        LET o == LiveOrder(ret'.id) IN
        \A b \in TotalsAt(HalfBookOf(o.side), o.price),
           a \in TotalsAt(NextHalfBookOf(o.side), o.price) :
            /\ b.result = "ok"
            /\ a.result = "ok"
            /\ a.total = b.total - o.qty

\* No step changes the quantity of an order that rests before and after it.
QuantitiesKept ==
    \A id \in DOMAIN order_loc \cap DOMAIN order_loc' :
        RestingQty(self', id) = RestingQty(self, id)

\* The frame of cancel and the constancy of resting quantities alone: they
\* hold of every step.
CancelFrameHolds == [][CancelFrame /\ QuantitiesKept]_vars

\* C19: a successful cancel removes exactly the order of the identifier from
\* the level it was added to: get_total_qty there drops by exactly the
\* order's quantity, every other resting order keeps quantity and position,
\* the other levels and the other side are unchanged, and no add, cancel or
\* refresh changes the quantity of a resting order.
C19_CancelRemovesExactlyOne ==
    [][CancelFrame /\ CancelDropsTotal /\ QuantitiesKept]_vars

\* Right after update_best_bid_ask another call changes nothing and returns
\* the same pair.
RefreshIsFixpoint ==
    ret.op = "update_best_bid_ask" =>
        /\ OrderBook_update_best_bid_ask(self) = self
        /\ <<best_bid, best_ask>> = <<ret.bid, ret.ask>>

\* update_best_bid_ask leaves the price maps, the level queues and the
\* location index as they were, and a call that follows another one returns
\* what that one returned.
RefreshFrame ==
    ret'.op = "update_best_bid_ask" =>
        /\ UNCHANGED <<bids, asks, order_loc>>
        /\ ret.op = "update_best_bid_ask" =>
              (ret'.bid = ret.bid /\ ret'.ask = ret.ask /\ UNCHANGED book)

\* C20: update_best_bid_ask changes nothing but the two cached best prices,
\* and it is idempotent: a second call with no add or cancel in between
\* returns the same pair and leaves the same state.
C20_RefreshOnlyCachesIdempotent ==
    /\ []RefreshIsFixpoint
    /\ [][RefreshFrame]_vars

\* C20 witness: update_best_bid_ask has moved a cached price off its initial
\* value in a book one of whose levels a cancel emptied.
C20_Witness ==
    /\ ret.op = "update_best_bid_ask"
    /\ ret.ask > 0
    /\ best_ask = ret.ask
    /\ \E p \in DOMAIN bids.price_map : QueueAt(bids, p) = <<>>
    /\ order_loc # <<>>

====
